---- MODULE Spec2Model ----
(***************************************************************************)
(* The diagnostic acquisition pipeline of the Surge VS Code extension      *)
(* (src/extension.js): SurgeAnalyzer (debounce, input preparation,         *)
(* subprocess invocation, staleness check, diagnostics parsing) and the    *)
(* editor events that drive it.  The editor is single-threaded: every      *)
(* action below is one event-loop task together with the microtasks it     *)
(* schedules, up to the next real suspension point (timer, file I/O,       *)
(* process event).                                                         *)
(***************************************************************************)
EXTENDS Integers, Sequences, FiniteSets, TLC

(***************************************************************************)
(* Bounds of the model.                                                    *)
(***************************************************************************)
\* highest document version an edit may produce
MaxVersion == 2
\* analysis runs (and their processes) that may exist at the same time
MaxRuns == 2

(***************************************************************************)
(* The host editor's documents.  d1 is a file on disk, d2 an untitled      *)
(* buffer; both are Surge documents.  A document object is never reopened: *)
(* reopening a URI makes a new object.                                     *)
(***************************************************************************)
Docs == {"d1", "d2"}

\* a path is a sequence of segments, absolute or relative; the empty
\* relative path stands for undefined / ""
Path(abs, segs) == [abs |-> abs, segs |-> segs]
NoPath == Path(FALSE, <<>>)

Scheme(d) == IF d = "d1" THEN "file" ELSE "untitled"
IsUntitled(d) == d = "d2"
LanguageId(d) == IF d \in Docs THEN "surge" ELSE "plaintext"
FsPath(d) == IF d = "d1" THEN Path(TRUE, <<"w", "a.sg">>) ELSE Path(FALSE, <<"Untitled-1">>)
\* document.uri.toString()
\* mutant: every document has the same key in the debounce map
UriStringShared(d) == "file:///w/a.sg"

UriString(d) == IF d = "d1" THEN "file:///w/a.sg" ELSE "untitled:Untitled-1"
Keys == {UriString(d) : d \in Docs}

\* document texts: an identity and the lengths of its lines
TextA == [id |-> "A", lines |-> <<3, 0>>]
TextB == [id |-> "B", lines |-> <<1>>]
Texts == {TextA, TextB}

\* values of the surge.analyzer.executablePath setting
CommandPaths == {"surge", "/opt/surge"}

\* SurgeAnalyzer.available: undefined | true | false
AvailableValues == {"undefined", "true", "false"}

NoHandle == 0

VARIABLES
    status,           \* document -> "unopened" | "open" | "closed" (isClosed)
    version,          \* document.version
    text,             \* document.getText()
    isDirty,          \* document.isDirty
    debounceHandles,  \* SurgeAnalyzer.debounceHandles: key -> timer handle
    timers,           \* the runtime's pending setTimeout timers
    runs,             \* runAnalysis calls in progress, in start order
    available,        \* SurgeAnalyzer.available
    notifiedMissing,  \* SurgeAnalyzer.notifiedMissing
    commandPath,      \* SurgeAnalyzer.commandPath
    diagnostics,      \* the DiagnosticCollection: document -> diagnostics shown
    tempFiles,        \* files present in ANALYZER_TEMP_DIR, with their content
    warnings,         \* showWarningMessage calls since the last path change
    enoents,          \* ENOENT spawn failures since the last path change
    last,             \* the handler that ran last
    call              \* a call of a function of the extension: arguments, return value

vars == <<status, version, text, isDirty, debounceHandles, timers, runs,
          available, notifiedMissing, commandPath, diagnostics, tempFiles,
          warnings, enoents, last, call>>

(***************************************************************************)
(* Path Normalizer.                                                        *)
(***************************************************************************)
\* process.platform and process.cwd() of the extension host
Platform == "linux"
Cwd == <<"w">>

\* String.prototype.toLowerCase on the path segments the model uses
ToLowerCase(s) == IF s = "A.sg" THEN "a.sg" ELSE IF s = "W" THEN "w" ELSE s

RECURSIVE NormalizeSegs(_, _)
\* path.normalize: "." is dropped, ".." removes the segment before it
NormalizeSegs(segs, out) ==
    IF segs = <<>> THEN out
    ELSE IF Head(segs) = "." THEN NormalizeSegs(Tail(segs), out)
    ELSE IF Head(segs) = ".."
         THEN NormalizeSegs(Tail(segs),
                            IF out = <<>> THEN out ELSE SubSeq(out, 1, Len(out) - 1))
    ELSE NormalizeSegs(Tail(segs), Append(out, Head(segs)))

normalizeFsPath(fsPath) ==
    IF fsPath = NoPath THEN NoPath
    ELSE LET candidate == IF fsPath.abs THEN fsPath.segs ELSE Cwd \o fsPath.segs
             normalized == NormalizeSegs(candidate, <<>>)
         IN  IF Platform = "win32"
             THEN Path(TRUE, [i \in 1..Len(normalized) |-> ToLowerCase(normalized[i])])
             ELSE Path(TRUE, normalized)

(***************************************************************************)
(* Temp Snapshot Manager: names in the scratch directory.                  *)
(***************************************************************************)
ANALYZER_TEMP_DIR == <<"tmp", "surge-vscode">>
NoFile == ""
\* `${name}-${Date.now()}-${random}${ext}`: one name per unique suffix
TempFileNames(d) ==
    IF Scheme(d) = "file"
    THEN <<"a-u1.sg", "a-u2.sg", "a-u3.sg", "a-u4.sg">>
    ELSE <<"untitled-u1.sg", "untitled-u2.sg", "untitled-u3.sg", "untitled-u4.sg">>
\* the suffix is unique: no file of the scratch directory and no write in
\* progress carries it
FreshSuffix(used) ==
    CHOOSE k \in 1..4 : k \notin used /\ \A j \in 1..(k - 1) : j \in used
\* mutant: the snapshot is written over the file of the document
TempPathOfDocument(name) == Path(TRUE, <<"w", "a.sg">>)

TempPath(name) == Path(TRUE, Append(ANALYZER_TEMP_DIR, name))
\* a file of the scratch directory
File(name, content) == [name |-> name, content |-> content]

(***************************************************************************)
(* The analyzer's JSON output.  A JSON value that may be a number is       *)
(* [t, n]: a number, a numeric string, or absent.                          *)
(***************************************************************************)
Num(n) == [t |-> "number", n |-> n]
Str(n) == [t |-> "string", n |-> n]
Undef == [t |-> "undefined", n |-> 0]
\* a number that is not finite, or a string that is not a number
NotANumber == [t |-> "NaN", n |-> 0]

\* a location in the snake_case convention, and one in camelCase
Loc(file, sl, sc, el, ec) ==
    [file |-> file, start_line |-> sl, start_col |-> sc, end_line |-> el, end_col |-> ec,
     startLine |-> Undef, startCol |-> Undef, endLine |-> Undef, endCol |-> Undef]
LocCamel(file, sl, sc, el, ec) ==
    [file |-> file, start_line |-> Undef, start_col |-> Undef, end_line |-> Undef,
     end_col |-> Undef, startLine |-> sl, startCol |-> sc, endLine |-> el, endCol |-> ec]

FixEdit(hasLoc, loc, newText) == [hasLocation |-> hasLoc, location |-> loc, new_text |-> newText]
Fix(title, edits) == [title |-> title, edits |-> edits]
Item(hasLoc, loc, severity, message, notes, fixes) ==
    [hasLocation |-> hasLoc, location |-> loc, severity |-> severity,
     message |-> message, notes |-> notes, fixes |-> fixes]
Note(hasLoc, loc, message) == [hasLocation |-> hasLoc, location |-> loc, message |-> message]

DocFile == Path(TRUE, <<"w", "a.sg">>)
DocFileDotted == Path(TRUE, <<"w", ".", "a.sg">>)
OtherFile == Path(TRUE, <<"w", "lib.sg">>)

\* the items of the two well-formed outputs the analyzer process may print
ItemsA ==
    << Item(TRUE, Loc(DocFileDotted, Num(1), Num(2), Undef, Undef), "ERROR", "m1", <<>>,
            << Fix("f1", << FixEdit(TRUE, Loc(DocFile, Num(1), Num(2), Num(1), Num(3)), "x") >>) >>) >>
ItemsB ==
    << Item(TRUE, Loc(OtherFile, Num(1), Num(1), Undef, Undef), "WARNING", "m2", <<>>, <<>>),
       Item(TRUE, Loc(NoPath, Num(9), Num(9), Num(9), Num(1)), "note", "m3", <<>>, <<>>) >>

\* what a process may have written to stdout when it closes
Stdouts == {"", "oops", "{}", "{diagnostics:[A]}"}

\* String.prototype.trim().length === 0
IsBlank(s) == s \in {"", "  "}

\* JSON.parse: ok is FALSE when it throws; otherwise the payload, of which the
\* parser reads only whether it has a `diagnostics` array, and its items
JSONParse(s) ==
    CASE s = "null"              -> [ok |-> TRUE, isObject |-> FALSE, diagnostics |-> "undefined", items |-> <<>>]
      [] s = "{}"                -> [ok |-> TRUE, isObject |-> TRUE, diagnostics |-> "undefined", items |-> <<>>]
      [] s = "{diagnostics:1}"   -> [ok |-> TRUE, isObject |-> TRUE, diagnostics |-> "number", items |-> <<>>]
      [] s = "{diagnostics:[]}"  -> [ok |-> TRUE, isObject |-> TRUE, diagnostics |-> "array", items |-> <<>>]
      [] s = "{diagnostics:[A]}" -> [ok |-> TRUE, isObject |-> TRUE, diagnostics |-> "array", items |-> ItemsA]
      [] s = "{diagnostics:[B]}" -> [ok |-> TRUE, isObject |-> TRUE, diagnostics |-> "array", items |-> ItemsB]
      [] OTHER                   -> [ok |-> FALSE, isObject |-> FALSE, diagnostics |-> "undefined", items |-> <<>>]

(***************************************************************************)
(* Diagnostic Parser/Mapper: ranges.                                       *)
(***************************************************************************)
Max(a, b) == IF a >= b THEN a ELSE b

\* mutant: nothing is clamped from above
MinUnclamped(a, b) == a

Min(a, b) == IF a <= b THEN a ELSE b

\* toZeroBased's null
Null == -1

\* mutant: lines and columns are taken as zero-based
toZeroBasedAsIs(value) ==
    IF value.t \in {"number", "string"} THEN Max(0, value.n) ELSE Null

toZeroBased(value) ==
    IF value.t \in {"number", "string"} THEN Max(0, value.n - 1) ELSE Null

\* a ?? b
Coalesce(a, b) == IF a.t = "undefined" THEN b ELSE a

\* new vscode.Range(start, end): the positions are swapped when end is
\* before start
Range(sl, sc, el, ec) ==
    IF el < sl \/ (el = sl /\ ec < sc)
    THEN [ok |-> TRUE, startLine |-> el, startCharacter |-> ec, endLine |-> sl, endCharacter |-> sc]
    ELSE [ok |-> TRUE, startLine |-> sl, startCharacter |-> sc, endLine |-> el, endCharacter |-> ec]
NullRange == [ok |-> FALSE, startLine |-> 0, startCharacter |-> 0, endLine |-> 0, endCharacter |-> 0]

\* mutant: a degenerate range is left as it is
WidenedEndSkipped(sameLine, startCharacter, endCharacter, startLength) == endCharacter

\* the end character after the widening of a degenerate same-line range
WidenedEnd(sameLine, startCharacter, endCharacter, startLength) ==
    IF sameLine /\ endCharacter <= startCharacter /\ startCharacter < startLength
    THEN startCharacter + 1
    ELSE endCharacter

\* `lines` are the line lengths of the document the range is made for
createRangeFromLocation(lines, location) ==
    LET startLine == toZeroBased(Coalesce(location.start_line, location.startLine))
        startCol == toZeroBased(Coalesce(location.start_col, location.startCol))
        endLine0 == toZeroBased(Coalesce(location.end_line, location.endLine))
        endCol0 == toZeroBased(Coalesce(location.end_col, location.endCol))
        endLine == IF endLine0 = Null THEN startLine ELSE endLine0
        endCol == IF endCol0 = Null THEN startCol ELSE endCol0
        lastLineIndex == Max(0, Len(lines) - 1)
        clampedStartLine == Min(Max(startLine, 0), lastLineIndex)
        clampedEndLine == Min(Max(endLine, 0), lastLineIndex)
    IN  IF startLine = Null \/ startCol = Null THEN NullRange
        \* document.lineAt throws for a line the document does not have
        ELSE IF clampedStartLine + 1 > Len(lines) THEN NullRange
        ELSE LET startLen == lines[clampedStartLine + 1]
                 endLen == lines[clampedEndLine + 1]
                 startCharacter == Min(Max(startCol, 0), startLen)
                 endCharacter == Min(Max(endCol, 0), endLen)
             IN  Range(clampedStartLine, startCharacter, clampedEndLine,
                       WidenedEnd(clampedStartLine = clampedEndLine, startCharacter,
                                  endCharacter, startLen))

(***************************************************************************)
(* Diagnostic Parser/Mapper: items.                                        *)
(***************************************************************************)
SURGE_SOURCE == "surge"

mapSeverity(kind) ==
    IF kind \in {"WARNING", "warning"} THEN "Warning"
    ELSE IF kind \in {"NOTE", "note", "INFO", "info"} THEN "Information"
    ELSE "Error"

\* the Analysis Context prepareInput returns; cleanup names the file it deletes
ContextInfo(path, analysisPath, documentPath, cleanup) ==
    [path |-> path, normalizedAnalysisPath |-> analysisPath,
     normalizedDocumentPath |-> documentPath, cleanup |-> cleanup]
NoContext == ContextInfo(NoPath, NoPath, NoPath, NoFile)

TargetPaths(contextInfo) ==
    {contextInfo.normalizedDocumentPath, contextInfo.normalizedAnalysisPath} \ {NoPath}

\* mutant: nothing is filtered by its path
InTargetPathsAlways(targetPaths, file) == TRUE

\* the path filter of parseDiagnostics and buildRelatedInformation
InTargetPaths(targetPaths, file) ==
    LET locationPath == normalizeFsPath(file)
    IN  ~(targetPaths /= {} /\ locationPath /= NoPath /\ locationPath \notin targetPaths)

RECURSIVE buildRelatedInformation(_, _, _)
buildRelatedInformation(lines, notes, targetPaths) ==
    IF notes = <<>> THEN <<>>
    ELSE LET note == Head(notes)
             rest == buildRelatedInformation(lines, Tail(notes), targetPaths)
             range == createRangeFromLocation(lines, note.location)
         IN  IF ~note.hasLocation THEN rest
             ELSE IF ~InTargetPaths(targetPaths, note.location.file) THEN rest
             ELSE IF ~range.ok THEN rest
             ELSE <<[range |-> range, message |-> note.message]>> \o rest

\* a vscode.Diagnostic; `fixes` is its entry in the diagnosticFixes WeakMap
\* (<<>> when it has none), `version` the document version it was computed for
Diagnostic(range, message, severity, related, fixes) ==
    [range |-> range, message |-> message, severity |-> severity, source |-> SURGE_SOURCE,
     relatedInformation |-> related, fixes |-> fixes, version |-> 0]

RECURSIVE MapItems(_, _, _)
\* the loop of parseDiagnostics over the items
MapItems(items, lines, targetPaths) ==
    IF items = <<>> THEN <<>>
    ELSE LET item == Head(items)
             rest == MapItems(Tail(items), lines, targetPaths)
             range == createRangeFromLocation(lines, item.location)
         IN  IF ~item.hasLocation THEN rest
             ELSE IF ~InTargetPaths(targetPaths, item.location.file) THEN rest
             ELSE IF ~range.ok THEN rest
             ELSE <<Diagnostic(range, item.message, mapSeverity(item.severity),
                               buildRelatedInformation(lines, item.notes, targetPaths),
                               item.fixes)>> \o rest

\* parseDiagnostics once JSON.parse has returned `payload`
ParsePayload(payload, lines, contextInfo) ==
    LET items == IF payload.diagnostics = "array" THEN payload.items ELSE <<>>
    IN  IF items = <<>> THEN <<>>
        ELSE MapItems(items, lines, TargetPaths(contextInfo))

parseDiagnostics(stdout, lines, contextInfo) ==
    IF IsBlank(stdout) THEN <<>>
    ELSE LET payload == JSONParse(stdout)
         IN  IF ~payload.ok THEN <<>>
             ELSE ParsePayload(payload, lines, contextInfo)

getFixesForDiagnostic(diagnostic) == diagnostic.fixes

(***************************************************************************)
(* Quick-Fix Provider.                                                     *)
(***************************************************************************)
\* a new_text that is not a string
NotAString == "undefined:"
DefaultTitle == "Apply Surge fix"
NoAction == [ok |-> FALSE, title |-> "", edits |-> <<>>]
\* a vscode.CodeAction with the replacements of its WorkspaceEdit
Action(title, edits) == [ok |-> TRUE, title |-> title, edits |-> edits]

\* mutant: no edit is skipped for its file
SkipsEditNever(targetPath, documentPath) == FALSE

\* `continue` for an edit of another file
SkipsEdit(targetPath, documentPath) ==
    targetPath /= NoPath /\ documentPath /= NoPath /\ targetPath /= documentPath

RECURSIVE AppliedEdits(_, _, _)
\* the loop of buildAction over fix.edits: the replacements made, in order
AppliedEdits(edits, d, lines) ==
    IF edits = <<>> THEN <<>>
    ELSE LET change == Head(edits)
             rest == AppliedEdits(Tail(edits), d, lines)
             documentPath == normalizeFsPath(FsPath(d))
             file == IF change.hasLocation /\ change.location.file /= NoPath
                     THEN change.location.file ELSE FsPath(d)
             targetPath == normalizeFsPath(file)
             range == IF change.hasLocation
                      THEN createRangeFromLocation(lines, change.location)
                      ELSE NullRange
             newText == IF change.new_text = NotAString THEN "" ELSE change.new_text
         IN  IF SkipsEdit(targetPath, documentPath) THEN rest
             ELSE IF ~range.ok THEN rest
             ELSE <<[range |-> range, newText |-> newText]>> \o rest

\* buildAction for document d, whose lines have the lengths `lines`
buildAction(d, lines, fix) ==
    IF fix.edits = <<>> THEN NoAction
    ELSE LET applied == AppliedEdits(fix.edits, d, lines)
         IN  IF applied = <<>> THEN NoAction
             ELSE Action(IF fix.title = "" THEN DefaultTitle ELSE fix.title, applied)

(***************************************************************************)
(* Debounce Scheduler.                                                     *)
(***************************************************************************)
\* a pending timer: its handle, the document its callback closes over, and
\* (history) the document version at the first trigger of its burst
Timer(id, d, since) == [id |-> id, doc |-> d, since |-> since]

\* setTimeout returns a handle no pending timer has
NewHandle(ts) ==
    CHOOSE k \in 1..(Cardinality(ts) + 1) :
        /\ k \notin {t.id : t \in ts}
        /\ \A j \in 1..(k - 1) : j \in {t.id : t \in ts}

\* mutant: trigger does not look at the availability flag
TriggerIgnoredLanguageOnly(avail, d) == LanguageId(d) /= "surge"

\* the early returns of trigger
TriggerIgnored(avail, d) == LanguageId(d) /= "surge" \/ avail = "false"

\* mutant: the pending timer is not cancelled
ClearTimeoutSkipped(ts, existing) == ts

\* clearTimeout(existing)
ClearTimeout(ts, existing) == {t \in ts : t.id /= existing}

\* trigger(document) on st = [available, handles, timers]; ver is the
\* document's version at the call
trigger(st, d, ver) ==
    IF TriggerIgnored(st.available, d) THEN st
    ELSE LET key == UriString(d)
             existing == st.handles[key]
             old == {t \in st.timers : t.id = existing}
             cleared == IF existing /= NoHandle THEN ClearTimeout(st.timers, existing)
                        ELSE st.timers
             handle == NewHandle(cleared)
             since == IF old = {} THEN ver ELSE (CHOOSE t \in old : TRUE).since
         IN  [st EXCEPT !.timers = cleared \cup {Timer(handle, d, since)},
                        !.handles = [st.handles EXCEPT ![key] = handle]]

\* vscode.workspace.textDocuments.forEach((doc) => this.trigger(doc))
DocOrder == <<"d1", "d2">>
RECURSIVE triggerAll(_, _, _, _)
triggerAll(st, docs, open, ver) ==
    IF docs = <<>> THEN st
    ELSE triggerAll(IF open[Head(docs)] = "open" THEN trigger(st, Head(docs), ver[Head(docs)])
                    ELSE st,
                    Tail(docs), open, ver)

DebounceState == [available |-> available, handles |-> debounceHandles, timers |-> timers]

(***************************************************************************)
(* Initial state: the state after activate() has run.                      *)
(***************************************************************************)
\* history: the notable outcome of the last step, if it had one
Last(op, d, info) == [op |-> op, doc |-> d, info |-> info, code |-> 0]
Nothing == Last("", "-", "")

\* a call: the function, its arguments, and its return value once it has
\* returned
Call(fn, args) == [fn |-> fn, args |-> args, returned |-> FALSE, value |-> <<>>]
NoCall == Call("", <<>>)

\* the analyzer's state after activate(), the documents being as given
Activated(open, ver, dirty) ==
    /\ status = open
    /\ version = ver
    /\ text = [d \in Docs |-> TextA]
    /\ isDirty = dirty
    /\ available = "undefined"
    /\ notifiedMissing = FALSE
    /\ commandPath = "surge"
    /\ LET st == triggerAll([available |-> "undefined",
                             handles |-> [k \in Keys |-> NoHandle],
                             timers |-> {}],
                            DocOrder, status, version)
       IN  debounceHandles = st.handles /\ timers = st.timers
    /\ runs = <<>>
    /\ diagnostics = [d \in Docs |-> <<>>]
    /\ tempFiles = {}
    /\ warnings = 0
    /\ enoents = 0
    /\ last = Nothing

\* one document: d1, open at activation or opened later, at its first
\* version, saved or restored with unsaved edits; d2 was closed before and
\* stays out
Init ==
    \E open \in {"unopened", "open"}, dirty \in BOOLEAN :
        /\ call = NoCall
        /\ Activated([d \in Docs |-> IF d = "d1" THEN open ELSE "closed"],
                     [d \in Docs |-> 1], [d \in Docs |-> d = "d1" /\ dirty])

\* two documents: d1 has unsaved edits and is at its last version, d2 is new
InitTwo ==
    \E open \in [Docs -> {"unopened", "open"}] :
        /\ call = NoCall
        /\ Activated(open, [d \in Docs |-> IF d = "d1" THEN MaxVersion ELSE MaxVersion - 1],
                     [d \in Docs |-> d = "d1"])

(***************************************************************************)
(* Editor events (activate's subscriptions).                               *)
(***************************************************************************)
\* the frame of an event that only calls trigger(d)
TriggerOnly(d, ver) ==
    LET st == trigger(DebounceState, d, ver)
    IN  /\ debounceHandles' = st.handles
        /\ timers' = st.timers
        /\ UNCHANGED <<runs, available, notifiedMissing, commandPath, diagnostics,
                       tempFiles, warnings, enoents, call>>

\* history: what an event's trigger(d) call did
TriggerNote(d) ==
    IF available = "false" THEN Last("ignored", d, "") ELSE Nothing

\* onDidOpenTextDocument
DidOpenTextDocument(d) ==
    /\ status[d] = "unopened"
    /\ status' = [status EXCEPT ![d] = "open"]
    /\ UNCHANGED <<version, text, isDirty>>
    /\ TriggerOnly(d, version[d])
    /\ last' = TriggerNote(d)

\* onDidChangeTextDocument: the editor has applied an edit
DidChangeTextDocument(d, newText) ==
    /\ status[d] = "open"
    /\ version[d] < MaxVersion
    /\ newText /= text[d]
    /\ version' = [version EXCEPT ![d] = @ + 1]
    /\ text' = [text EXCEPT ![d] = newText]
    /\ isDirty' = [isDirty EXCEPT ![d] = TRUE]
    /\ UNCHANGED status
    /\ TriggerOnly(d, version[d] + 1)
    /\ last' = TriggerNote(d)

\* onDidSaveTextDocument: the editor has written the buffer to its file
DidSaveTextDocument(d) ==
    /\ status[d] = "open"
    /\ Scheme(d) = "file"
    /\ isDirty' = [isDirty EXCEPT ![d] = FALSE]
    /\ UNCHANGED <<status, version, text>>
    /\ TriggerOnly(d, version[d])
    /\ last' = TriggerNote(d)

\* onDidCloseTextDocument: diagnosticCollection.delete(doc.uri)
DidCloseTextDocument(d) ==
    /\ status[d] = "open"
    /\ status' = [status EXCEPT ![d] = "closed"]
    /\ diagnostics' = [diagnostics EXCEPT ![d] = <<>>]
    /\ UNCHANGED <<version, text, isDirty, debounceHandles, timers, runs, available,
                   notifiedMissing, commandPath, tempFiles, warnings, enoents, call>>
    /\ last' = Nothing

\* an open/change/save event of a document whose languageId is not 'surge':
\* trigger returns at once
OtherLanguageEvent ==
    /\ UNCHANGED <<status, version, text, isDirty>>
    /\ TriggerOnly("plain", 1)
    /\ last' = Nothing

\* onDidChangeConfiguration affecting surge.analyzer.executablePath; rs is
\* `runs`, possibly with history added
PathChange(newPath, rs) ==
    /\ commandPath' = newPath
    /\ available' = "undefined"
    /\ notifiedMissing' = FALSE
    /\ LET st == triggerAll([DebounceState EXCEPT !.available = "undefined"],
                            DocOrder, status, version)
       IN  debounceHandles' = st.handles /\ timers' = st.timers
    /\ warnings' = 0
    /\ enoents' = 0
    /\ runs' = rs
    /\ UNCHANGED <<status, version, text, isDirty, diagnostics, tempFiles, call>>
    /\ last' = Nothing

DidChangeConfiguration(newPath) == PathChange(newPath, runs)

\* the same event, with the history of the runs whose process is in flight:
\* they were spawned with the path that is now replaced
PathChangeNoted(newPath) ==
    /\ newPath /= commandPath
    /\ PathChange(newPath,
                  [i \in 1..Len(runs) |->
                      IF runs[i].proc = "running"
                      THEN [runs[i] EXCEPT !.previousPath = TRUE] ELSE runs[i]])

(***************************************************************************)
(* runAnalysis.  A run is one call of runAnalysis that has reached a       *)
(* suspension point, together with the process it spawned:                 *)
(*   pc   "mkdir"   awaiting ensureTempDir (createTempFile)                *)
(*        "write"   awaiting fs.promises.writeFile                         *)
(*        "invoke"  awaiting invokeSurge's promise                         *)
(*        "cleanup" awaiting contextInfo.cleanup() (the unlink)            *)
(*        "done"    returned; kept until its process has closed            *)
(*   proc "none" | "running" | "ENOENT" | "EACCES" (an 'error' event was   *)
(*        emitted) | "closed"                                              *)
(***************************************************************************)
NoResult == [isNull |-> TRUE, stdout |-> "", exitCode |-> 0]
Result(stdout, exitCode) == [isNull |-> FALSE, stdout |-> stdout, exitCode |-> exitCode]

Run(d, ver, content, contextInfo, temp, pc, proc) ==
    [doc |-> d, version |-> ver, content |-> content, contextInfo |-> contextInfo,
     temp |-> temp, pc |-> pc, proc |-> proc, finished |-> FALSE, result |-> NoResult,
     \* history: a run started later has set this document's diagnostics
     newerApplied |-> FALSE,
     \* history, kept by PathChangeNoted only: the executable path was changed
     \* after cp.spawn was called for this run
     previousPath |-> FALSE]

\* mutant: the version is the one the document had when it was opened
CapturedVersionAtOpen(d) == 1

\* the version and text runAnalysis captures
CapturedVersion(d) == version[d]
CapturedContent(d) == text[d]

\* prepareInput's docPath, and its test for direct-from-disk analysis
DocPath(d) == IF Scheme(d) = "file" THEN FsPath(d) ELSE NoPath
\* mutant: prepareInput does not look at isDirty
AnalyzeFromDiskThoughDirty(d) == DocPath(d) /= NoPath /\ ~IsUntitled(d)
AnalyzeFromDisk(d) == DocPath(d) /= NoPath /\ ~IsUntitled(d) /\ ~isDirty[d]

DirectContext(d) ==
    ContextInfo(DocPath(d), normalizeFsPath(DocPath(d)), normalizeFsPath(DocPath(d)), NoFile)
TempContext(d, name) ==
    ContextInfo(TempPath(name), normalizeFsPath(TempPath(name)),
                normalizeFsPath(DocPath(d)), name)

\* a run is dropped from the model once it has returned and its process, if
\* any, has closed
Over(r) == r.pc = "done" /\ r.proc \in {"none", "closed"}
InProgress(r) == ~Over(r)
Reap(rs) == SelectSeq(rs, InProgress)

\* mutants: the staleness test without the version check, and without the
\* isClosed check
IsStaleClosedOnly(r) == status[r.doc] = "closed"
IsStaleVersionOnly(r) == version[r.doc] /= r.version

\* the staleness test of runAnalysis
IsStale(r) == version[r.doc] /= r.version \/ status[r.doc] = "closed"

\* mutant: the output of a process that exited with a code above 1 is not
\* applied
AppliesOnCleanExit(r, result) == ~result.isNull /\ ~IsStale(r) /\ result.exitCode <= 1

\* whether runAnalysis, resumed with `result`, reaches diagnosticCollection.set
Applies(r, result) == ~result.isNull /\ ~IsStale(r)

Stamp(diags, ver) == [i \in 1..Len(diags) |-> [diags[i] EXCEPT !.version = ver]]

\* mutant: an empty parse result leaves the document's diagnostics in place
AfterResultKeepingOnEmpty(diags, r, result) ==
    IF Applies(r, result)
       /\ parseDiagnostics(result.stdout, text[r.doc].lines, r.contextInfo) /= <<>>
    THEN [diags EXCEPT ![r.doc] =
            Stamp(parseDiagnostics(result.stdout, text[r.doc].lines, r.contextInfo), r.version)]
    ELSE diags

\* mutant: the parsed diagnostics are added to those the document has
AfterResultMerging(diags, r, result) ==
    IF Applies(r, result)
    THEN [diags EXCEPT ![r.doc] =
            @ \o Stamp(parseDiagnostics(result.stdout, text[r.doc].lines, r.contextInfo),
                       r.version)]
    ELSE diags

\* runAnalysis from the end of its finally block: the collection afterwards
AfterResult(diags, r, result) ==
    IF Applies(r, result)
    THEN [diags EXCEPT ![r.doc] =
            Stamp(parseDiagnostics(result.stdout, text[r.doc].lines, r.contextInfo), r.version)]
    ELSE diags

\* history: run i has set the diagnostics of its document
NoteApplied(rs, i) ==
    [j \in 1..Len(rs) |->
        IF j < i /\ rs[j].doc = rs[i].doc
        THEN [rs[j] EXCEPT !.newerApplied = TRUE]
        ELSE rs[j]]

\* history: what runAnalysis, resumed with `result`, does with it
OutcomeNote(r, result) ==
    IF result.isNull THEN Nothing
    ELSE IF version[r.doc] /= r.version THEN Last("dropped", r.doc, "stale")
    ELSE IF status[r.doc] = "closed" THEN Last("dropped", r.doc, "closed")
    ELSE [Last(IF diagnostics[r.doc] /= <<>> THEN "replaced" ELSE "applied", r.doc,
               result.stdout) EXCEPT !.code = result.exitCode]

\* invokeSurge's promise resolves with `result` for run i, whose record
\* (process state updated) is r: the finally block awaits the cleanup, or,
\* with no cleanup, runAnalysis runs to its end in the same task
Resume(i, r, result, diags) ==
    IF r.contextInfo.cleanup /= NoFile
    THEN /\ runs' = Reap([runs EXCEPT ![i] = [r EXCEPT !.pc = "cleanup", !.result = result]])
         /\ diagnostics' = diags
    ELSE /\ runs' = Reap([(IF Applies(r, result) THEN NoteApplied(runs, i) ELSE runs)
                            EXCEPT ![i] = [r EXCEPT !.pc = "done", !.result = result]])
         /\ diagnostics' = AfterResult(diags, r, result)

\* cp.spawn(this.commandPath, ...) for a prepared run; whether the
\* executable is found shows in the event the process emits
Spawned(r, contextInfo) ==
    [r EXCEPT !.contextInfo = contextInfo, !.pc = "invoke", !.proc = "running"]

\* cp.spawn either returns a process or throws (an error the runtime does
\* not report through the 'error' event)
SpawnOutcomes == {"spawned", "thrown"}

\* mutant: an exception of the invocation skips the cleanup
ThrownSkippingCleanup(r, contextInfo) ==
    [r EXCEPT !.contextInfo = contextInfo, !.pc = "done"]

\* cp.spawn throws: invokeSurge's promise rejects, the finally block of
\* runAnalysis awaits the cleanup if there is one, and the exception leaves
\* runAnalysis
Thrown(r, contextInfo) ==
    [r EXCEPT !.contextInfo = contextInfo,
              !.pc = IF contextInfo.cleanup /= NoFile THEN "cleanup" ELSE "done"]

\* runAnalysis from its call of invokeSurge to its next suspension point
Invoked(r, contextInfo, outcome) ==
    IF outcome = "spawned" THEN Spawned(r, contextInfo) ELSE Thrown(r, contextInfo)

\* mutant: the catch block around prepareInput falls through to the
\* invocation
AbortedStillInvoking(r) == Spawned(r, DirectContext(r.doc))

\* the catch block around prepareInput: log and return
Aborted(r) == [r EXCEPT !.pc = "done", !.temp = NoFile]

DocVars == <<status, version, text, isDirty>>

\* the debounce timer t expires: its callback deletes the map entry and calls
\* runAnalysis, which runs to its first suspension point
TimerFired(t, outcome) ==
    /\ t \in timers
    /\ timers' = timers \ {t}
    /\ debounceHandles' = [debounceHandles EXCEPT ![UriString(t.doc)] = NoHandle]
    /\ IF available = "false"
       THEN /\ UNCHANGED runs
            /\ last' = Nothing
       ELSE /\ Len(runs) < MaxRuns
            /\ LET d == t.doc
                   r == Run(d, CapturedVersion(d), CapturedContent(d), NoContext, NoFile,
                            "mkdir", "none")
               IN  runs' = Reap(Append(runs, IF AnalyzeFromDisk(d)
                                             THEN Invoked(r, DirectContext(d), outcome)
                                             ELSE r))
            /\ last' = IF t.since < version[t.doc] THEN Last("expiry", t.doc, "edited")
                        ELSE Nothing
    /\ UNCHANGED <<DocVars, call, available, notifiedMissing, commandPath, diagnostics,
                   tempFiles, warnings, enoents>>

UsedNames == {f.name : f \in tempFiles} \cup {runs[j].temp : j \in 1..Len(runs)}

\* ensureTempDir settles for run i
MkdirSettled(i, ok) ==
    /\ i \in 1..Len(runs)
    /\ runs[i].pc = "mkdir"
    /\ LET d == runs[i].doc
           names == TempFileNames(d)
           name == names[FreshSuffix({k \in 1..Len(names) : names[k] \in UsedNames})]
       IN  runs' = IF ok THEN [runs EXCEPT ![i].pc = "write", ![i].temp = name]
                   ELSE Reap([runs EXCEPT ![i] = Aborted(@)])
    /\ UNCHANGED <<DocVars, call, debounceHandles, timers, available, notifiedMissing,
                   commandPath, diagnostics, tempFiles, warnings, enoents>>
    /\ last' = IF ok THEN Nothing ELSE Last("prepare failed", runs[i].doc, "mkdir")

\* writeFile settles for run i; on success prepareInput returns and
\* invokeSurge spawns the process
WriteSettled(i, ok, outcome) ==
    /\ i \in 1..Len(runs)
    /\ runs[i].pc = "write"
    /\ IF ok
       THEN /\ tempFiles' = tempFiles \cup {File(runs[i].temp, runs[i].content)}
            /\ runs' = [runs EXCEPT ![i] = Invoked(@, TempContext(@.doc, @.temp), outcome)]
       ELSE /\ tempFiles' = tempFiles
            /\ runs' = Reap([runs EXCEPT ![i] = Aborted(@)])
    /\ UNCHANGED <<DocVars, call, debounceHandles, timers, available, notifiedMissing,
                   commandPath, diagnostics, warnings, enoents>>
    /\ last' = IF ok THEN Nothing ELSE Last("prepare failed", runs[i].doc, "write")

(***************************************************************************)
(* Process Invoker: the handlers invokeSurge installs on the process.      *)
(***************************************************************************)
ErrorCodes == {"ENOENT", "EACCES"}
\* the code a 'close' event carries: a number, or null after a signal
ExitCodes == {0, 1, 2, Null}

\* mutant: every spawn failure is taken for a missing executable
IsMissingExecutableAlways(code) == TRUE

\* the 'error' handler's test for a missing executable
IsMissingExecutable(code) == code = "ENOENT"

\* mutant: the warning is shown at every ENOENT failure
ShouldWarnAlways == TRUE

\* whether the ENOENT branch shows the warning
ShouldWarn == ~notifiedMissing

\* mutant: a 'close' event always marks the analyzer available
AvailableAfterCloseAlways == "true"

\* this.available after a 'close' event
AvailableAfterClose == IF available /= "false" THEN "true" ELSE available

\* typeof code === 'number' ? code : 0
ExitCodeOf(code) == IF code = Null THEN 0 ELSE code

\* mutant: the ENOENT branch does not clear the collection
ClearedCollectionSkipped == diagnostics

\* diagnosticCollection.clear()
ClearedCollection == [d \in Docs |-> <<>>]

\* proc.on('error'): the process of run i could not be spawned; the event
\* comes in a later tick than the spawn call, and the handler does not depend
\* on when
ProcError(i, code) ==
    /\ i \in 1..Len(runs)
    /\ runs[i].proc = "running"
    /\ LET r == [runs[i] EXCEPT !.proc = code, !.finished = TRUE]
       IN  IF IsMissingExecutable(code)
           THEN /\ available' = "false"
                /\ notifiedMissing' = TRUE
                /\ warnings' = IF ShouldWarn THEN warnings + 1 ELSE warnings
                /\ enoents' = Min(enoents + 1, 2)
                \* diagnosticCollection.clear(), then finish(null)
                /\ Resume(i, r, NoResult, ClearedCollection)
           ELSE /\ UNCHANGED <<available, notifiedMissing, warnings, enoents>>
                /\ Resume(i, r, NoResult, diagnostics)
    /\ UNCHANGED <<DocVars, call, debounceHandles, timers, commandPath, tempFiles>>
    /\ last' = Last(code, runs[i].doc,
                    IF \E d \in Docs \ {runs[i].doc} : diagnostics[d] /= <<>>
                    THEN "others shown"
                    ELSE IF diagnostics[runs[i].doc] /= <<>> THEN "shown" ELSE "")

\* proc.on('close'): the process of run i has exited and its streams have
\* ended, with `stdout` accumulated; after an 'error' the promise is already
\* resolved and finish does nothing
ProcClose(i, code, stdout) ==
    /\ i \in 1..Len(runs)
    /\ runs[i].proc \in {"running"} \cup ErrorCodes
    /\ available' = AvailableAfterClose
    /\ LET r == [runs[i] EXCEPT !.proc = "closed", !.finished = TRUE]
       IN  IF runs[i].finished
           THEN /\ runs' = Reap([runs EXCEPT ![i] = r])
                /\ diagnostics' = diagnostics
           ELSE Resume(i, r, Result(stdout, ExitCodeOf(code)), diagnostics)
    /\ UNCHANGED <<DocVars, call, debounceHandles, timers, notifiedMissing, commandPath,
                   tempFiles, warnings, enoents>>
    /\ last' = IF ~runs[i].finished /\ runs[i].contextInfo.cleanup = NoFile
               THEN OutcomeNote(runs[i], Result(stdout, ExitCodeOf(code)))
               ELSE Nothing

\* contextInfo.cleanup() settles for run i (deleteTempFile swallows every
\* error), and runAnalysis runs to its end
CleanupSettled(i) ==
    /\ i \in 1..Len(runs)
    /\ runs[i].pc = "cleanup"
    /\ tempFiles' = {f \in tempFiles : f.name /= runs[i].contextInfo.cleanup}
    /\ runs' = Reap([(IF Applies(runs[i], runs[i].result) THEN NoteApplied(runs, i) ELSE runs)
                       EXCEPT ![i].pc = "done"])
    /\ diagnostics' = AfterResult(diagnostics, runs[i], runs[i].result)
    /\ UNCHANGED <<DocVars, call, debounceHandles, timers, available, notifiedMissing,
                   commandPath, warnings, enoents>>
    /\ last' = IF runs[i].result.isNull THEN Last("cleaned", runs[i].doc, runs[i].proc)
               ELSE OutcomeNote(runs[i], runs[i].result)

Next ==
    \/ \E d \in Docs : DidOpenTextDocument(d)
    \/ \E d \in Docs, newText \in Texts : DidChangeTextDocument(d, newText)
    \/ \E d \in Docs : DidSaveTextDocument(d)
    \/ \E d \in Docs : DidCloseTextDocument(d)
    \/ OtherLanguageEvent
    \/ \E newPath \in CommandPaths : DidChangeConfiguration(newPath)
    \/ \E t \in timers, outcome \in SpawnOutcomes : TimerFired(t, outcome)
    \/ \E i \in 1..MaxRuns, ok \in BOOLEAN : MkdirSettled(i, ok)
    \/ \E i \in 1..MaxRuns, ok \in BOOLEAN, outcome \in SpawnOutcomes :
          WriteSettled(i, ok, outcome)
    \/ \E i \in 1..MaxRuns, code \in ErrorCodes : ProcError(i, code)
    \/ \E i \in 1..MaxRuns, code \in ExitCodes, stdout \in Stdouts : ProcClose(i, code, stdout)
    \/ \E i \in 1..MaxRuns : CleanupSettled(i)

Spec == Init /\ [][Next]_vars

\* the same handlers with two documents and fewer inputs: no edits, no
\* failing file operations, no exception of cp.spawn, one exit code, an empty and a well-formed
\* output, and path changes that resolve to the same executable
NextTwo ==
    \/ \E d \in Docs : DidOpenTextDocument(d)
    \/ \E d \in Docs : DidSaveTextDocument(d)
    \/ \E d \in Docs : DidCloseTextDocument(d)
    \/ DidChangeConfiguration("surge")
    \/ \E t \in timers : TimerFired(t, "spawned")
    \/ \E i \in 1..MaxRuns : MkdirSettled(i, TRUE)
    \/ \E i \in 1..MaxRuns : WriteSettled(i, TRUE, "spawned")
    \/ \E i \in 1..MaxRuns, code \in ErrorCodes : ProcError(i, code)
    \/ \E i \in 1..MaxRuns, stdout \in {"", "{diagnostics:[A]}"} : ProcClose(i, 1, stdout)
    \/ \E i \in 1..MaxRuns : CleanupSettled(i)

SpecTwo == InitTwo /\ [][NextTwo]_vars

\* input preparation with two documents: both at their first version, d1
\* saved or with unsaved edits; edits and saves, no failures, every process
\* exits
InitPrepare ==
    \E open \in [Docs -> {"unopened", "open"}], dirty \in BOOLEAN :
        /\ call = NoCall
        /\ Activated(open, [d \in Docs |-> 1], [d \in Docs |-> d = "d1" /\ dirty])

NextPrepare ==
    \/ \E d \in Docs : DidOpenTextDocument(d)
    \/ \E d \in Docs, newText \in Texts : DidChangeTextDocument(d, newText)
    \/ \E d \in Docs : DidSaveTextDocument(d)
    \/ \E t \in timers : TimerFired(t, "spawned")
    \/ \E i \in 1..MaxRuns : MkdirSettled(i, TRUE)
    \/ \E i \in 1..MaxRuns : WriteSettled(i, TRUE, "spawned")
    \/ \E i \in 1..MaxRuns, code \in ExitCodes, stdout \in Stdouts : ProcClose(i, code, stdout)
    \/ \E i \in 1..MaxRuns : CleanupSettled(i)

SpecPrepare == InitPrepare /\ [][NextPrepare]_vars

\* the publication of results with two documents: edits and saves, no
\* failures, every process exits with code 0 and one of two outputs with
\* different diagnostics
OutputsAB == {"{diagnostics:[A]}", "{diagnostics:[B]}"}

NextReplace ==
    \/ \E d \in Docs : DidOpenTextDocument(d)
    \/ \E d \in Docs, newText \in Texts : DidChangeTextDocument(d, newText)
    \/ \E d \in Docs : DidSaveTextDocument(d)
    \/ \E t \in timers : TimerFired(t, "spawned")
    \/ \E i \in 1..MaxRuns : MkdirSettled(i, TRUE)
    \/ \E i \in 1..MaxRuns : WriteSettled(i, TRUE, "spawned")
    \/ \E i \in 1..MaxRuns, stdout \in OutputsAB : ProcClose(i, 0, stdout)
    \/ \E i \in 1..MaxRuns : CleanupSettled(i)

SpecReplace == InitPrepare /\ [][NextReplace]_vars

\* one document whose analysis always succeeds: the executable exists, the
\* temp file can be written, and every process exits, with one of two
\* outputs; timers expire, file operations settle and processes exit
\* eventually
NextLive ==
    \/ DidOpenTextDocument("d1")
    \/ \E newText \in Texts : DidChangeTextDocument("d1", newText)
    \/ DidSaveTextDocument("d1")
    \/ \E t \in timers : TimerFired(t, "spawned")
    \/ \E i \in 1..MaxRuns : MkdirSettled(i, TRUE)
    \/ \E i \in 1..MaxRuns : WriteSettled(i, TRUE, "spawned")
    \/ \E i \in 1..MaxRuns, code \in {0, 2}, stdout \in OutputsAB : ProcClose(i, code, stdout)
    \/ \E i \in 1..MaxRuns : CleanupSettled(i)

Fairness ==
    /\ WF_vars(\E t \in timers : TimerFired(t, "spawned"))
    /\ WF_vars(\E i \in 1..MaxRuns : MkdirSettled(i, TRUE))
    /\ WF_vars(\E i \in 1..MaxRuns : WriteSettled(i, TRUE, "spawned"))
    /\ WF_vars(\E i \in 1..MaxRuns, code \in {0, 2}, stdout \in OutputsAB :
                  ProcClose(i, code, stdout))
    /\ WF_vars(\E i \in 1..MaxRuns : CleanupSettled(i))

SpecLive == Init /\ [][NextLive]_vars /\ Fairness

\* changes of the executable path while processes are in flight, with two
\* documents: opens, no failing file operation, processes that fail to
\* spawn or exit with code 0 and a well-formed output
NextPath ==
    \/ \E d \in Docs : DidOpenTextDocument(d)
    \/ \E newPath \in CommandPaths : PathChangeNoted(newPath)
    \/ \E t \in timers : TimerFired(t, "spawned")
    \/ \E i \in 1..MaxRuns : MkdirSettled(i, TRUE)
    \/ \E i \in 1..MaxRuns : WriteSettled(i, TRUE, "spawned")
    \/ \E i \in 1..MaxRuns, code \in ErrorCodes : ProcError(i, code)
    \/ \E i \in 1..MaxRuns : ProcClose(i, 0, "{diagnostics:[A]}")
    \/ \E i \in 1..MaxRuns : CleanupSettled(i)

SpecPath == InitPrepare /\ [][NextPath]_vars

(***************************************************************************)
(* Calls of the parser's and the code-action provider's functions, on      *)
(* arguments drawn from the sets below, in an activated extension with     *)
(* both documents open.                                                    *)
(***************************************************************************)
\* the `file` of a location: the document's file (as is, with a "." segment,
\* relative to the working directory), another file, temp files, none
LocationFiles ==
    {DocFile, DocFileDotted, Path(FALSE, <<"a.sg">>), OtherFile,
     TempPath("a-u1.sg"), TempPath("a-u2.sg"), TempPath("untitled-u1.sg"), NoPath}

\* the contexts prepareInput returns: d1 from disk, d1 and d2 from a temp file
Contexts ==
    {DirectContext("d1"), TempContext("d1", "a-u1.sg"), TempContext("d2", "untitled-u1.sg")}

\* the k-th item of a payload: on `file`, with no note or one note on
\* `noteFile`
NotesOn(k, noteFiles) ==
    [j \in 1..Len(noteFiles) |->
        Note(TRUE, Loc(noteFiles[j], Num(1), Num(1), Undef, Undef), <<"note", k>>)]
ItemOn(k, file, noteFiles) ==
    Item(TRUE, Loc(file, Num(1), Num(1), Undef, Undef), "ERROR", <<"item", k>>,
         NotesOn(k, noteFiles), <<>>)
NoteFileSeqs == {<<>>} \cup {<<f>> : f \in LocationFiles}
Payload(items) == [ok |-> TRUE, isObject |-> TRUE, diagnostics |-> "array", items |-> items]
Payloads ==
    {Payload(<<ItemOn(1, f, ns)>>) : f \in LocationFiles, ns \in NoteFileSeqs}
    \cup {Payload(<<ItemOn(1, f1, ns), ItemOn(2, f2, <<>>)>>) :
             f1 \in LocationFiles, f2 \in LocationFiles, ns \in NoteFileSeqs}

ParseCalls ==
    {Call("parseDiagnostics", [payload |-> p, lines |-> TextA.lines, contextInfo |-> c]) :
        p \in Payloads, c \in Contexts}

\* the values a line or column field of a location may hold
Coordinates == {Undef, NotANumber, Str(2)} \cup {Num(n) : n \in -1..5}

\* locations in either field-name convention
Locations ==
    {Loc(DocFile, sl, sc, el, ec) :
        sl \in Coordinates, sc \in Coordinates, el \in Coordinates, ec \in Coordinates}
    \cup {LocCamel(DocFile, sl, sc, el, ec) :
        sl \in Coordinates, sc \in Coordinates, el \in Coordinates, ec \in Coordinates}

\* documents, as the lengths of their lines
LineLengths == {<<0>>, <<3, 0>>, <<1, 0, 6>>}

RangeCalls ==
    {Call("createRangeFromLocation", [lines |-> ls, location |-> loc]) :
        ls \in LineLengths, loc \in Locations}

\* createRangeFromLocation returns
CreateRangeFromLocationReturns ==
    /\ call.fn = "createRangeFromLocation" /\ ~call.returned
    /\ call' = [call EXCEPT !.returned = TRUE,
                            !.value = createRangeFromLocation(call.args.lines,
                                                              call.args.location)]
    /\ UNCHANGED <<DocVars, debounceHandles, timers, runs, available, notifiedMissing,
                   commandPath, diagnostics, tempFiles, warnings, enoents, last>>

RECURSIVE ActionsOfFixes(_, _, _)
\* the inner loop of provideCodeActions: the actions buildAction returns
ActionsOfFixes(d, lines, fixes) ==
    IF fixes = <<>> THEN <<>>
    ELSE LET action == buildAction(d, lines, Head(fixes))
             rest == ActionsOfFixes(d, lines, Tail(fixes))
         IN  IF action.ok THEN <<action>> \o rest ELSE rest

RECURSIVE provideCodeActions(_, _, _)
\* provideCodeActions for document d and the diagnostics `diags` of the
\* request's context
provideCodeActions(d, lines, diags) ==
    IF diags = <<>> THEN <<>>
    ELSE LET diagnostic == Head(diags)
             rest == provideCodeActions(d, lines, Tail(diags))
         IN  IF diagnostic.source /= SURGE_SOURCE THEN rest
             ELSE ActionsOfFixes(d, lines, getFixesForDiagnostic(diagnostic)) \o rest

\* an item on `file` with one fix, whose one edit is on the same file
ItemWithFixOn(file) ==
    Item(TRUE, Loc(file, Num(1), Num(1), Undef, Undef), "ERROR", <<"item", 1>>, <<>>,
         << Fix("f1", << FixEdit(TRUE, Loc(file, Num(1), Num(2), Num(1), Num(3)), "x") >>) >>)

\* the output of a run is parsed with the run's context and published, and
\* the editor asks for the code actions of the published diagnostics
ProvideCalls ==
    {Call("provideCodeActions",
          [doc |-> c[1], lines |-> TextA.lines, contextInfo |-> c[2],
           payload |-> Payload(<<ItemWithFixOn(file)>>)]) :
        c \in {<<"d1", DirectContext("d1")>>, <<"d1", TempContext("d1", "a-u1.sg")>>,
               <<"d2", TempContext("d2", "untitled-u1.sg")>>},
        file \in LocationFiles}

ProvideCodeActionsReturns ==
    /\ call.fn = "provideCodeActions" /\ ~call.returned
    /\ LET diags == ParsePayload(call.args.payload, call.args.lines, call.args.contextInfo)
       IN  call' = [call EXCEPT !.returned = TRUE,
                                !.value = [diagnostics |-> diags,
                                           actions |-> provideCodeActions(call.args.doc,
                                                                          call.args.lines, diags)]]
    /\ UNCHANGED <<DocVars, debounceHandles, timers, runs, available, notifiedMissing,
                   commandPath, diagnostics, tempFiles, warnings, enoents, last>>

\* the locations a fix edit may carry: on the document, on another file, or
\* without a file; with a usable position, without a start, or none at all
EditFiles == {DocFile, DocFileDotted, OtherFile, NoPath, Path(FALSE, <<"Untitled-1">>)}
EditLocations ==
    {Loc(file, Num(1), Num(2), Num(1), Num(3)) : file \in EditFiles}
    \cup {Loc(file, Undef, Num(2), Num(1), Num(3)) : file \in EditFiles}
    \cup {LocCamel(file, Num(9), Num(1), Undef, Undef) : file \in EditFiles}
EditsWith(newText) ==
    {FixEdit(TRUE, loc, newText) : loc \in EditLocations}
    \cup {FixEdit(FALSE, Loc(NoPath, Undef, Undef, Undef, Undef), newText)}
EditSeqs ==
    {<<>>}
    \cup {<<e1>> : e1 \in EditsWith("e1") \cup EditsWith(NotAString)}
    \cup {<<e1, e2>> : e1 \in EditsWith("e1"), e2 \in EditsWith("e2")}

BuildCalls ==
    {Call("buildAction", [doc |-> d, lines |-> <<3, 0>>, fix |-> Fix(title, edits)]) :
        d \in Docs, title \in {"", "f1"}, edits \in EditSeqs}

\* buildAction returns
BuildActionReturns ==
    /\ call.fn = "buildAction" /\ ~call.returned
    /\ call' = [call EXCEPT !.returned = TRUE,
                            !.value = buildAction(call.args.doc, call.args.lines,
                                                  call.args.fix)]
    /\ UNCHANGED <<DocVars, debounceHandles, timers, runs, available, notifiedMissing,
                   commandPath, diagnostics, tempFiles, warnings, enoents, last>>

\* parseDiagnostics returns (JSON.parse has returned the payload)
ParseDiagnosticsReturns ==
    /\ call.fn = "parseDiagnostics" /\ ~call.returned
    /\ call' = [call EXCEPT !.returned = TRUE,
                            !.value = ParsePayload(call.args.payload, call.args.lines,
                                                   call.args.contextInfo)]
    /\ UNCHANGED <<DocVars, debounceHandles, timers, runs, available, notifiedMissing,
                   commandPath, diagnostics, tempFiles, warnings, enoents, last>>

InitCalls ==
    /\ Activated([d \in Docs |-> "open"], [d \in Docs |-> 1], [d \in Docs |-> FALSE])
    /\ \/ call \in ParseCalls
       \/ call \in RangeCalls
       \/ call \in BuildCalls
       \/ call \in ProvideCalls

NextCalls ==
    \/ ParseDiagnosticsReturns
    \/ CreateRangeFromLocationReturns
    \/ BuildActionReturns
    \/ ProvideCodeActionsReturns

SpecCalls == InitCalls /\ [][NextCalls]_vars

(***************************************************************************)
(* Claims.                                                                 *)
(***************************************************************************)
TimersOf(d) == {t \in timers : t.doc = d}

\* a run that has just been started by runAnalysis: it has captured the
\* document's version and text and is at its first suspension point
JustStarted(r, d) ==
    /\ r.doc = d /\ r.version = version[d] /\ r.content = text[d]
    /\ r.pc \in {"mkdir", "invoke"} /\ ~r.finished

\* C1: the triggers of a burst (each arriving while the timer of the one
\* before is pending) leave one pending timer for the document, the one the
\* debounce map holds; its expiry calls runAnalysis once, which (unless the
\* analyzer is marked unavailable) starts exactly one run, for this document
\* and with the version and text the document has at expiry (a run whose
\* cp.spawn throws at once has ended within the expiry's step); nothing
\* else starts a run.
C1_Debounce ==
    /\ [](\A d \in Docs :
            /\ Cardinality(TimersOf(d)) <= 1
            /\ \A t \in TimersOf(d) : debounceHandles[UriString(d)] = t.id)
    /\ [][/\ \A t \in timers :
               /\ TimerFired(t, "spawned") /\ available /= "false" =>
                     /\ runs' = Append(runs, runs'[Len(runs')])
                     /\ JustStarted(runs'[Len(runs')], t.doc)
               /\ TimerFired(t, "thrown") /\ available /= "false" =>
                     \/ runs' = runs /\ AnalyzeFromDisk(t.doc)
                     \/ /\ runs' = Append(runs, runs'[Len(runs')])
                        /\ JustStarted(runs'[Len(runs')], t.doc)
          /\ Len(runs') > Len(runs) =>
                \E t \in timers, outcome \in SpawnOutcomes : TimerFired(t, outcome)]_vars

\* a burst that began at an older version has expired and its one run holds
\* the newer version
C1_Witness ==
    /\ last.op = "expiry" /\ last.info = "edited"
    /\ Len(runs) = 1
    /\ runs[1].doc = last.doc /\ runs[1].version = version[last.doc]
    /\ runs[1].version > 1 /\ runs[1].content = text[last.doc]

\* the steps in which run i's invocation settles or run i resumes after it
ErrorStep(i, code) == ProcError(i, code)
ExitStep(i) == \E code \in ExitCodes, stdout \in Stdouts : ProcClose(i, code, stdout)
SettleStep(i) ==
    \/ \E code \in ErrorCodes : ErrorStep(i, code)
    \/ ExitStep(i)
    \/ CleanupSettled(i)

\* the document of run i has another version than the one the run captured
VersionChanged(i) == version[runs[i].doc] /= runs[i].version

Empty == [d \in Docs |-> <<>>]

\* C2 as stated: a run whose document changed version since the capture
\* leaves the diagnostic collection as it is, however its invocation settles.
C2_StaleRunChangesNothing ==
    [][\A i \in 1..Len(runs) :
          VersionChanged(i) /\ SettleStep(i) => diagnostics' = diagnostics]_vars

\* C2 amended: such a run never sets an entry; it leaves the collection as
\* it is when its invocation exits or fails with another error than ENOENT,
\* and its ENOENT failure clears the whole collection.
C2_StaleRunNeverSets ==
    [][\A i \in 1..Len(runs) :
          VersionChanged(i) =>
              /\ ErrorStep(i, "ENOENT") => diagnostics' = Empty
              /\ ErrorStep(i, "EACCES") \/ ExitStep(i) \/ CleanupSettled(i)
                    => diagnostics' = diagnostics]_vars

\* a run has come back with output for an older version while diagnostics
\* were shown, and was dropped
C2_Witness ==
    /\ last.op = "dropped" /\ last.info = "stale"
    /\ diagnostics[last.doc] /= <<>>

\* C3: a closed document has no diagnostics, from its close on.
C3_ClosedStaysEmpty ==
    \A d \in Docs : status[d] = "closed" => diagnostics[d] = <<>>

\* a run of a closed document, of the version the document still has, has
\* come back with output and was dropped
C3_Witness ==
    /\ last.op = "dropped" /\ last.info = "closed"
    /\ status[last.doc] = "closed" /\ diagnostics[last.doc] = <<>>

\* run i resumes with a result (its process exited)
ResultStep(i) ==
    \/ ~runs[i].finished /\ ExitStep(i)
    \/ ~runs[i].result.isNull /\ CleanupSettled(i)

\* C4 as stated: once a run started later has set the document's
\* diagnostics, the result of a run started earlier leaves them as they are.
C4_OlderResultDropped ==
    [][\A i \in 1..Len(runs) :
          runs[i].newerApplied /\ ResultStep(i)
              => diagnostics'[runs[i].doc] = diagnostics[runs[i].doc]]_vars

\* the fixes provideCodeActions asks getFixesForDiagnostic for
OfferedFixes(diagnostic) ==
    IF diagnostic.source = SURGE_SOURCE THEN getFixesForDiagnostic(diagnostic) ELSE <<>>

\* C5 as stated: every diagnostic shown for a document, and every fix
\* offered for it, was computed for the document's current version.
C5_ShownIsCurrent ==
    \A d \in Docs : \A i \in 1..Len(diagnostics[d]) :
        /\ diagnostics[d][i].version = version[d]
        /\ OfferedFixes(diagnostics[d][i]) /= <<>> => diagnostics[d][i].version = version[d]

\* C6: between two changes of the executable path the warning has been
\* shown once if an ENOENT failure has happened, and not at all otherwise.
C6_WarnedOnce == warnings = (IF enoents > 0 THEN 1 ELSE 0)

\* invocations of both documents have failed with ENOENT, one warning
C6_Witness ==
    /\ enoents = 2 /\ warnings = 1
    /\ \E i, j \in 1..Len(runs) :
          /\ runs[i].proc = "ENOENT" /\ runs[j].proc = "ENOENT"
          /\ runs[i].doc /= runs[j].doc

\* C7: the ENOENT handler leaves the analyzer unavailable and the collection
\* empty for every document; the run resumes with no result and, in its
\* remaining steps, sets nothing.
C7_MissingExecutable ==
    /\ [](\A i \in 1..Len(runs) : runs[i].proc = "ENOENT" => runs[i].result.isNull)
    /\ [][\A i \in 1..Len(runs) :
             /\ ErrorStep(i, "ENOENT") => available' = "false" /\ diagnostics' = Empty
             /\ runs[i].proc = "ENOENT" /\ SettleStep(i) => diagnostics' = diagnostics]_vars

\* an ENOENT failure has just been handled while another document had
\* diagnostics
C7_Witness ==
    /\ last.op = "ENOENT" /\ last.info = "others shown"
    /\ available = "false" /\ diagnostics = Empty
    /\ \E i \in 1..Len(runs) :
          runs[i].doc = last.doc /\ runs[i].proc = "ENOENT" /\ runs[i].result.isNull

\* C8: while the analyzer is marked unavailable, an open, change or save
\* event (each calls trigger) leaves the debounce map, the pending timers
\* and the runs as they are.
C8_TriggerNoOp ==
    [][available = "false" =>
          \A d \in Docs :
              \/ DidOpenTextDocument(d)
              \/ \E newText \in Texts : DidChangeTextDocument(d, newText)
              \/ DidSaveTextDocument(d)
              => UNCHANGED <<debounceHandles, timers, runs>>]_vars

\* a trigger has been ignored while a timer of the document was pending
C8_Witness ==
    /\ last.op = "ignored" /\ available = "false"
    /\ \E t \in timers : t.doc = last.doc /\ debounceHandles[UriString(last.doc)] = t.id

\* C9: the handler of another spawn failure changes neither the collection
\* nor the availability flag and shows no warning; the run resumes with no
\* result and, in its remaining steps, sets nothing.
C9_OtherSpawnFailure ==
    /\ [](\A i \in 1..Len(runs) : runs[i].proc = "EACCES" => runs[i].result.isNull)
    /\ [][\A i \in 1..Len(runs) :
             /\ ErrorStep(i, "EACCES")
                   => UNCHANGED <<diagnostics, available, notifiedMissing, warnings>>
             /\ runs[i].proc = "EACCES" /\ SettleStep(i)
                   => diagnostics' = diagnostics /\ (available' = "false" => available = "false")]_vars

\* such a failure has just been handled while another document had
\* diagnostics, which are still there
C9_Witness ==
    /\ last.op = "EACCES" /\ last.info = "others shown"
    /\ available /= "false" /\ warnings = 0
    /\ \E d \in Docs \ {last.doc} : diagnostics[d] /= <<>>
    /\ \E i \in 1..Len(runs) :
          runs[i].doc = last.doc /\ runs[i].proc = "EACCES" /\ runs[i].result.isNull

\* outputs that are empty or blank, not JSON, or JSON without a diagnostics
\* array
NoDiagnosticsOutputs == {"", "  ", "oops", "null", "{}", "{diagnostics:1}"}

\* run i's document is open and has the version the run captured
NotStale(i) == version[runs[i].doc] = runs[i].version /\ status[runs[i].doc] = "open"

\* C10: parseDiagnostics returns the empty list for such an output, and a
\* run that is not stale and resumes with it leaves its document without
\* diagnostics.
C10_MalformedClears ==
    /\ \A s \in NoDiagnosticsOutputs, t \in Texts, d \in Docs :
          /\ parseDiagnostics(s, t.lines, DirectContext(d)) = <<>>
          /\ parseDiagnostics(s, t.lines, TempContext(d, TempFileNames(d)[1])) = <<>>
    /\ [][\A i \in 1..Len(runs) : NotStale(i) =>
             /\ \A code \in ExitCodes, s \in NoDiagnosticsOutputs :
                   /\ ~runs[i].finished /\ runs[i].contextInfo.cleanup = NoFile
                   /\ ProcClose(i, code, s)
                   => diagnostics'[runs[i].doc] = <<>>
             /\ /\ ~runs[i].result.isNull /\ runs[i].result.stdout \in NoDiagnosticsOutputs
                /\ CleanupSettled(i)
                => diagnostics'[runs[i].doc] = <<>>]_vars

\* such an output has just replaced diagnostics that were shown
C10_Witness ==
    /\ last.op = "replaced" /\ last.info \in NoDiagnosticsOutputs
    /\ diagnostics[last.doc] = <<>>

\* runs without its i-th element
Without(rs, i) == [j \in 1..(Len(rs) - 1) |-> IF j < i THEN rs[j] ELSE rs[j + 1]]

\* C11: when the scratch directory cannot be made or the temp file cannot
\* be written, the run ends there: it never had a process and is gone with
\* none spawned, every other run is as it was, and the diagnostic
\* collection and the availability flag are unchanged.
C11_PrepareFailureAborts ==
    [][\A i \in 1..Len(runs) :
          MkdirSettled(i, FALSE) \/ (\E o \in SpawnOutcomes : WriteSettled(i, FALSE, o)) =>
              /\ runs[i].proc = "none"
              /\ runs' = Without(runs, i)
              /\ UNCHANGED <<diagnostics, available>>]_vars

\* the write of a temp file has just failed while diagnostics were shown
\* and the analyzer was known to be available
C11_Witness ==
    /\ last.op = "prepare failed" /\ last.info = "write"
    /\ diagnostics[last.doc] /= <<>> /\ available = "true"
    /\ \A i \in 1..Len(runs) : runs[i].doc /= last.doc

FileNames(files) == {f.name : f \in files}

\* the runs that hold a context with a cleanup they have not yet run
CleanupDue(rs) ==
    {i \in 1..Len(rs) : rs[i].contextInfo.cleanup /= NoFile /\ rs[i].pc \in {"invoke", "cleanup"}}

\* C12: every temp file present belongs to exactly one run that has still to
\* run its cleanup (so none is left once all runs are over); a run awaits
\* its cleanup only after its invocation has settled (exit, ENOENT, other
\* spawn failure, exception); however the invocation of a run with a cleanup
\* settles, the run goes on to await the cleanup; and a temp file goes away
\* only by the cleanup of its run, which is then over with its cleanup.
C12_CleanupOnce ==
    /\ [](/\ \A f \in tempFiles :
                Cardinality({i \in CleanupDue(runs) : runs[i].contextInfo.cleanup = f.name}) = 1
          /\ \A i \in 1..Len(runs) :
                runs[i].pc = "cleanup" => runs[i].finished \/ runs[i].proc = "none")
    /\ [][\A i \in 1..Len(runs) :
             /\ /\ runs[i].contextInfo.cleanup /= NoFile /\ ~runs[i].finished
                /\ \/ \E code \in ErrorCodes : ProcError(i, code)
                   \/ ExitStep(i)
                => /\ Len(runs') = Len(runs) /\ runs'[i].pc = "cleanup"
                   /\ runs'[i].contextInfo = runs[i].contextInfo
                   /\ tempFiles' = tempFiles
             /\ WriteSettled(i, TRUE, "thrown")
                => /\ Len(runs') = Len(runs) /\ runs'[i].pc = "cleanup"
                   /\ FileNames(tempFiles') = FileNames(tempFiles) \cup {runs'[i].contextInfo.cleanup}
             /\ /\ runs[i].contextInfo.cleanup \in FileNames(tempFiles)
                /\ runs[i].contextInfo.cleanup \notin FileNames(tempFiles')
                => /\ CleanupSettled(i)
                   /\ FileNames(tempFiles') = FileNames(tempFiles) \ {runs[i].contextInfo.cleanup}
                   /\ \A j \in CleanupDue(runs') :
                         runs'[j].contextInfo.cleanup /= runs[i].contextInfo.cleanup]_vars

\* the cleanup of a run whose cp.spawn threw has just run, and neither a
\* run nor a temp file is left
C12_Witness ==
    /\ last.op = "cleaned" /\ last.info = "none"
    /\ runs = <<>> /\ tempFiles = {}

\* prepareInput's condition for analysing the document's own file, as the
\* claim states it
OnDiskUnmodified(d) == Scheme(d) = "file" /\ ~IsUntitled(d) /\ ~isDirty[d]

\* C13: runAnalysis, reaching prepareInput at the expiry of a timer, goes on
\* in the same step with a context on the document's own path, without
\* cleanup and without any file written, exactly when the document has a
\* 'file' path, is not untitled and is not dirty, and otherwise awaits the
\* temp file; when the write settles, a file that was not there before is in
\* the scratch directory, holding the text the run captured, the context's
\* path is that file and its cleanup names that file; the cleanup removes
\* that file and no other.
C13_PrepareInput ==
    [][/\ \A t \in timers :
            TimerFired(t, "spawned") /\ available /= "false" =>
                LET r == runs'[Len(runs')]
                IN  /\ Len(runs') = Len(runs) + 1
                    /\ tempFiles' = tempFiles
                    /\ IF OnDiskUnmodified(t.doc)
                       THEN /\ r.pc = "invoke" /\ r.proc = "running"
                            /\ r.contextInfo.path = FsPath(t.doc)
                            /\ r.contextInfo.cleanup = NoFile
                       ELSE /\ r.pc = "mkdir" /\ r.proc = "none"
                            /\ r.contextInfo = NoContext
       /\ \A i \in 1..Len(runs) :
            /\ WriteSettled(i, TRUE, "spawned") =>
                  \E name \in FileNames(tempFiles') :
                      /\ name \notin FileNames(tempFiles)
                      /\ tempFiles' = tempFiles \cup {File(name, runs[i].content)}
                      /\ Len(TempPath(name).segs) = Len(ANALYZER_TEMP_DIR) + 1
                      /\ SubSeq(TempPath(name).segs, 1, Len(ANALYZER_TEMP_DIR)) = ANALYZER_TEMP_DIR
                      /\ runs'[i].contextInfo.path = TempPath(name)
                      /\ runs'[i].contextInfo.cleanup = name
                      /\ runs'[i].pc = "invoke" /\ runs'[i].proc = "running"
            /\ CleanupSettled(i) =>
                  tempFiles' = {f \in tempFiles : f.name /= runs[i].contextInfo.cleanup}]_vars

\* a run of the saved file d1 holds a direct context while a run of d2,
\* edited since its text was captured, holds a context on a temp file with
\* the captured text
C13_Witness ==
    \E i, j \in 1..Len(runs) :
        /\ runs[i].doc = "d1" /\ runs[i].pc = "invoke" /\ ~isDirty["d1"]
        /\ runs[i].contextInfo.path = FsPath("d1") /\ runs[i].contextInfo.cleanup = NoFile
        /\ runs[j].doc = "d2" /\ runs[j].pc = "invoke"
        /\ runs[j].content /= text["d2"]
        /\ File(runs[j].contextInfo.cleanup, runs[j].content) \in tempFiles
        /\ runs[j].contextInfo.path = TempPath(runs[j].contextInfo.cleanup)

\* what run i publishes from the output `stdout`
Published(i, stdout) ==
    Stamp(parseDiagnostics(stdout, text[runs[i].doc].lines, runs[i].contextInfo),
          runs[i].version)

\* C14: a run that is not stale and whose process exits publishes what
\* parseDiagnostics makes of stdout, whatever the exit code (0, 1, above 1,
\* or none); the result carries the code, or 0 when the close event has
\* none.
C14_ExitCodeIgnored ==
    [][\A i \in 1..Len(runs) : NotStale(i) =>
          /\ \A code \in ExitCodes, s \in Stdouts :
                ~runs[i].finished /\ ProcClose(i, code, s) =>
                    IF runs[i].contextInfo.cleanup = NoFile
                    THEN diagnostics'[runs[i].doc] = Published(i, s)
                    ELSE /\ runs'[i].result.stdout = s /\ ~runs'[i].result.isNull
                         /\ runs'[i].result.exitCode = (IF code \in {0, 1, 2} THEN code ELSE 0)
          /\ ~runs[i].result.isNull /\ CleanupSettled(i) =>
                diagnostics'[runs[i].doc] = Published(i, runs[i].result.stdout)]_vars

\* the output of a process that exited with code 2 has just been published
C14_Witness ==
    /\ last.op \in {"applied", "replaced"} /\ last.code = 2
    /\ last.info = "{diagnostics:[A]}" /\ diagnostics[last.doc] /= <<>>

\* a location file that normalizes to the context's document path or to its
\* analysis path
OnTarget(file, contextInfo) ==
    /\ normalizeFsPath(file) /= NoPath
    /\ normalizeFsPath(file) \in
          {contextInfo.normalizedDocumentPath, contextInfo.normalizedAnalysisPath}

\* the diagnostics of `value` made from the item with message m, and the
\* related information made from the note with message m
MadeFrom(value, m) == {j \in 1..Len(value) : value[j].message = m}
RelatedFrom(diagnostic, m) ==
    {j \in 1..Len(diagnostic.relatedInformation) : diagnostic.relatedInformation[j].message = m}

\* C15 as stated: an item is in the output only if its location file
\* normalizes to the document path or to the analysis path, and so is a note
\* in the related information of its diagnostic.
C15_OnlyTargetFiles ==
    call.fn = "parseDiagnostics" /\ call.returned =>
        \A k \in 1..Len(call.args.payload.items) :
            LET item == call.args.payload.items[k]
            IN  /\ MadeFrom(call.value, item.message) /= {}
                     => OnTarget(item.location.file, call.args.contextInfo)
                /\ \A j \in MadeFrom(call.value, item.message), n \in 1..Len(item.notes) :
                      RelatedFrom(call.value[j], item.notes[n].message) /= {}
                          => OnTarget(item.notes[n].location.file, call.args.contextInfo)

\* C15 amended: an item (with a location that yields a range) is in the
\* output, once, exactly when its location has no file or its file
\* normalizes to the document path or to the analysis path; the notes of an
\* item that is in the output are in its related information by the same
\* rule.
C15_PathFilter ==
    call.fn = "parseDiagnostics" /\ call.returned =>
        \A k \in 1..Len(call.args.payload.items) :
            LET item == call.args.payload.items[k]
                kept(file) == file = NoPath \/ OnTarget(file, call.args.contextInfo)
            IN  /\ Cardinality(MadeFrom(call.value, item.message))
                      = (IF kept(item.location.file) THEN 1 ELSE 0)
                /\ \A j \in MadeFrom(call.value, item.message), n \in 1..Len(item.notes) :
                      Cardinality(RelatedFrom(call.value[j], item.notes[n].message))
                          = (IF kept(item.notes[n].location.file) THEN 1 ELSE 0)

\* of an item on another file and an item on the document's file (written
\* with a "." segment) with a note on another file, the output holds the
\* second without the note
C15_Witness ==
    /\ call.fn = "parseDiagnostics" /\ call.returned
    /\ call.args.contextInfo = TempContext("d1", "a-u1.sg")
    /\ Len(call.args.payload.items) = 2
    /\ call.args.payload.items[2].location.file = OtherFile
    /\ call.args.payload.items[1].location.file = DocFileDotted
    /\ call.args.payload.items[1].notes /= <<>>
    /\ call.args.payload.items[1].notes[1].location.file = OtherFile
    /\ Len(call.value) = 1
    /\ call.value[1].message = call.args.payload.items[1].message
    /\ call.value[1].relatedInformation = <<>>

\* the fields of a location as the claims read them: either convention,
\* 1-based
StartLineOf(location) == Coalesce(location.start_line, location.startLine)
StartColOf(location) == Coalesce(location.start_col, location.startCol)
EndLineOf(location) == Coalesce(location.end_line, location.endLine)
EndColOf(location) == Coalesce(location.end_col, location.endCol)
IsNumeric(v) == v.t \in {"number", "string"}

\* C16: for a document with at least one line and a location with numeric
\* start line and column, the range returned has its lines within
\* 0..lineCount-1 and its characters within 0..the length of their line; a
\* start line beyond the line count puts the position made from it on the
\* last line (the start of the range, unless an end before it was given,
\* when the Range constructor orders it as the end).
C16_RangeClamped ==
    call.fn = "createRangeFromLocation" /\ call.returned =>
        LET lines == call.args.lines
            location == call.args.location
            range == call.value
        IN  /\ Len(lines) >= 1
            /\ IsNumeric(StartLineOf(location)) /\ IsNumeric(StartColOf(location))
            => /\ range.ok
               /\ range.startLine \in 0..(Len(lines) - 1)
               /\ range.endLine \in 0..(Len(lines) - 1)
               /\ range.startCharacter \in 0..lines[range.startLine + 1]
               /\ range.endCharacter \in 0..lines[range.endLine + 1]
               /\ StartLineOf(location).n > Len(lines) =>
                     /\ range.endLine = Len(lines) - 1
                     /\ ~IsNumeric(EndLineOf(location)) => range.startLine = Len(lines) - 1

\* a start line and an end column beyond the document have been clamped
C16_Witness ==
    /\ call.fn = "createRangeFromLocation" /\ call.returned
    /\ call.args.lines = <<3, 0>>
    /\ call.args.location = Loc(DocFile, Num(5), Num(1), Undef, Num(4))
    /\ call.value = Range(1, 0, 1, 0)

\* the positions of a location as the claims describe them: zero-based, the
\* end falling back to the start, lines clamped to the document and
\* characters to their line
ZeroBasedOf(v) == IF v.n - 1 > 0 THEN v.n - 1 ELSE 0
ClampedTo(n, top) == IF n > top THEN top ELSE n
ClampedStartLine(lines, location) ==
    ClampedTo(ZeroBasedOf(StartLineOf(location)), Len(lines) - 1)
ClampedEndLine(lines, location) ==
    IF IsNumeric(EndLineOf(location))
    THEN ClampedTo(ZeroBasedOf(EndLineOf(location)), Len(lines) - 1)
    ELSE ClampedStartLine(lines, location)
ClampedStartCharacter(lines, location) ==
    ClampedTo(ZeroBasedOf(StartColOf(location)), lines[ClampedStartLine(lines, location) + 1])
ClampedEndCharacter(lines, location) ==
    ClampedTo(ZeroBasedOf(IF IsNumeric(EndColOf(location)) THEN EndColOf(location)
                                                           ELSE StartColOf(location)),
              lines[ClampedEndLine(lines, location) + 1])

\* C17: when the clamped start and end are on the same line, the end
\* character is not after the start character and the start character is
\* before the end of the line, the range returned starts at the start
\* character and is exactly one character wide, and its end is not beyond the
\* length of the line.
C17_DegenerateWidened ==
    call.fn = "createRangeFromLocation" /\ call.returned =>
        LET lines == call.args.lines
            location == call.args.location
            range == call.value
        IN  /\ IsNumeric(StartLineOf(location)) /\ IsNumeric(StartColOf(location))
            /\ ClampedStartLine(lines, location) = ClampedEndLine(lines, location)
            /\ ClampedEndCharacter(lines, location) <= ClampedStartCharacter(lines, location)
            /\ ClampedStartCharacter(lines, location) < lines[ClampedStartLine(lines, location) + 1]
            => /\ range.ok
               /\ range.startLine = ClampedStartLine(lines, location)
               /\ range.endLine = range.startLine
               /\ range.startCharacter = ClampedStartCharacter(lines, location)
               /\ range.endCharacter = range.startCharacter + 1
               /\ range.endCharacter <= lines[range.startLine + 1]

\* an end before the start on the same line has become a one-character range
C17_Witness ==
    /\ call.fn = "createRangeFromLocation" /\ call.returned
    /\ call.args.lines = <<3, 0>>
    /\ call.args.location = LocCamel(DocFile, Num(1), Num(2), Num(1), Num(1))
    /\ call.value = [ok |-> TRUE, startLine |-> 0, startCharacter |-> 1,
                     endLine |-> 0, endCharacter |-> 2]

\* C18: a 1-based (L, C) inside the document with no end position, in either
\* field-name convention, gives a range that starts at (L-1, C-1) and ends
\* on the same line: one character wide when the line has content beyond
\* C-1, zero-width otherwise.
C18_OneBasedStart ==
    call.fn = "createRangeFromLocation" /\ call.returned =>
        LET lines == call.args.lines
            location == call.args.location
            range == call.value
            L == StartLineOf(location).n
            C == StartColOf(location).n
        IN  /\ StartLineOf(location).t = "number" /\ StartColOf(location).t = "number"
            /\ EndLineOf(location) = Undef /\ EndColOf(location) = Undef
            /\ L \in 1..Len(lines)
            /\ C \in 1..(lines[L] + 1)
            => /\ range.ok
               /\ range.startLine = L - 1 /\ range.startCharacter = C - 1
               /\ range.endLine = L - 1
               /\ range.endCharacter = IF C - 1 < lines[L] THEN C ELSE C - 1

\* line 3, column 5 of a document has become the position (2, 4)
C18_Witness ==
    /\ call.fn = "createRangeFromLocation" /\ call.returned
    /\ call.args.lines = <<1, 0, 6>>
    /\ call.args.location \in {Loc(DocFile, Num(3), Num(5), Undef, Undef),
                                LocCamel(DocFile, Num(3), Num(5), Undef, Undef)}
    /\ call.value.ok
    /\ call.value.startLine = 2 /\ call.value.startCharacter = 4
    /\ call.value.endLine = 2 /\ call.value.endCharacter = 5

\* the edit's target path (its location file, else the document's path)
\* normalizes to the normalized path of document d
TargetsDocument(change, d) ==
    normalizeFsPath(IF change.hasLocation /\ change.location.file /= NoPath
                    THEN change.location.file ELSE FsPath(d))
        = normalizeFsPath(FsPath(d))
\* the edit has a location with a numeric start line and column
HasPosition(change) ==
    /\ change.hasLocation
    /\ IsNumeric(StartLineOf(change.location)) /\ IsNumeric(StartColOf(change.location))
TextOf(change) == IF change.new_text = NotAString THEN "" ELSE change.new_text
\* the action made by buildAction replaces exactly the texts of `expected`,
\* and there is no action when `expected` is empty
ActionOf(action, expected) ==
    IF expected = <<>> THEN ~action.ok
    ELSE /\ action.ok
         /\ Len(action.edits) = Len(expected)
         /\ \A k \in 1..Len(expected) : action.edits[k].newText = TextOf(expected[k])

\* C19 as stated: the edits of the action are exactly the edits of the fix
\* whose target path normalizes to the document's path, and there is no
\* action when there is no such edit.
C19_ExactlyDocumentEdits ==
    call.fn = "buildAction" /\ call.returned =>
        LET Included(change) == TargetsDocument(change, call.args.doc)
        IN  ActionOf(call.value, SelectSeq(call.args.fix.edits, Included))

\* C19 amended: the edits of the action are exactly the edits of the fix
\* whose target path normalizes to the document's path and whose location has
\* a numeric start line and column; there is no action when there is no such
\* edit.
C19_DocumentEditsWithPosition ==
    call.fn = "buildAction" /\ call.returned =>
        LET Included(change) ==
                TargetsDocument(change, call.args.doc) /\ HasPosition(change)
        IN  ActionOf(call.value, SelectSeq(call.args.fix.edits, Included))

\* a fix with an edit of the document and an edit of another file has become
\* an action with the first edit only
C19_Witness ==
    /\ call.fn = "buildAction" /\ call.returned
    /\ call.args.doc = "d1"
    /\ call.args.fix.edits =
         << FixEdit(TRUE, Loc(DocFile, Num(1), Num(2), Num(1), Num(3)), "e1"),
            FixEdit(TRUE, Loc(OtherFile, Num(1), Num(2), Num(1), Num(3)), "e2") >>
    /\ call.value.ok
    /\ Len(call.value.edits) = 1 /\ call.value.edits[1].newText = "e1"

\* C20: the debounce map holds at most one pending timer per document key:
\* every pending timer is the one the map holds for its document (a timer
\* replaced by a later trigger is cancelled, so it is not pending and cannot
\* fire) and every entry of the map is a pending timer; a timer that fires is
\* no longer pending and its entry is removed, the other entries staying as
\* they are; an open or save event of one document leaves the pending timer
\* and the map entry of every other document as they were.
C20_OneTimerPerDocument ==
    /\ [](/\ \A key \in Keys : Cardinality({t \in timers : UriString(t.doc) = key}) <= 1
          /\ \A t \in timers : debounceHandles[UriString(t.doc)] = t.id
          /\ \A key \in Keys :
                debounceHandles[key] /= NoHandle =>
                    \E t \in timers : t.id = debounceHandles[key] /\ UriString(t.doc) = key)
    /\ [][/\ \A t \in timers :
               TimerFired(t, "spawned") =>
                   /\ t \notin timers'
                   /\ debounceHandles'[UriString(t.doc)] = NoHandle
                   /\ \A e \in Docs \ {t.doc} :
                         /\ TimersOf(e)' = TimersOf(e)
                         /\ debounceHandles'[UriString(e)] = debounceHandles[UriString(e)]
          /\ \A d \in Docs :
               DidOpenTextDocument(d) \/ DidSaveTextDocument(d) =>
                   \A e \in Docs \ {d} :
                       /\ TimersOf(e)' = TimersOf(e)
                       /\ debounceHandles'[UriString(e)] = debounceHandles[UriString(e)]]_vars

\* d1, open since activation, has been saved and d2 opened before any run
\* was started: each has its own pending timer in the map
C20_Witness ==
    /\ status = [d \in Docs |-> "open"]
    /\ ~isDirty["d1"]
    /\ runs = <<>> /\ available = "undefined" /\ enoents = 0
    /\ \A d \in Docs : Cardinality(TimersOf(d)) = 1
    /\ debounceHandles["file:///w/a.sg"] /= NoHandle
    /\ debounceHandles["untitled:Untitled-1"] /= NoHandle
    /\ debounceHandles["file:///w/a.sg"] /= debounceHandles["untitled:Untitled-1"]

\* C21: when the result of a run that is not stale is applied (at the close
\* event when there is no cleanup, else when the cleanup has settled), the
\* collection changes in the entry of the run's document only, which becomes
\* exactly what parseDiagnostics makes of the run's stdout.
C21_ResultReplaces ==
    [][\A i \in 1..Len(runs) : NotStale(i) =>
          /\ \A s \in OutputsAB :
                /\ ~runs[i].finished /\ runs[i].contextInfo.cleanup = NoFile
                /\ ProcClose(i, 0, s)
                => diagnostics' = [diagnostics EXCEPT ![runs[i].doc] = Published(i, s)]
          /\ ~runs[i].result.isNull /\ CleanupSettled(i) =>
                diagnostics' =
                    [diagnostics EXCEPT ![runs[i].doc] = Published(i, runs[i].result.stdout)]]_vars

\* a document that showed other diagnostics now shows the one diagnostic of
\* output B, and the other document still shows its own
C21_Witness ==
    /\ last.op = "replaced" /\ last.info = "{diagnostics:[B]}"
    /\ Len(diagnostics[last.doc]) = 1 /\ diagnostics[last.doc][1].message = "m3"
    /\ \E e \in Docs \ {last.doc} : diagnostics[e] /= <<>>

\* C22: the analyzer becomes unavailable only in the handler of an ENOENT
\* spawn failure; once it is unavailable, every step other than a change of
\* the executable path leaves it so, and in particular every close event of
\* a process does.
C22_UnavailableUntilPathChange ==
    [][/\ available /= "false" /\ available' = "false" =>
             \E i \in 1..Len(runs) : ErrorStep(i, "ENOENT")
       /\ available = "false" /\ available' /= "false" =>
             \E newPath \in CommandPaths : DidChangeConfiguration(newPath)
       /\ \A i \in 1..Len(runs) :
             available = "false" /\ ExitStep(i) => available' = "false"]_vars

\* the process of another run has exited normally and its result has been
\* applied while the analyzer was unavailable, and it still is
C22_Witness ==
    /\ available = "false" /\ enoents > 0
    /\ last.op \in {"applied", "replaced"}

\* an open, change or save event of the document (each calls trigger)
EditorEvent ==
    \/ DidOpenTextDocument("d1")
    \/ \E newText \in Texts : DidChangeTextDocument("d1", newText)
    \/ DidSaveTextDocument("d1")

\* the document shows diagnostics, all set by a run that captured the
\* version the document has
ShowsCurrent ==
    /\ diagnostics["d1"] /= <<>>
    /\ \A k \in 1..Len(diagnostics["d1"]) : diagnostics["d1"][k].version = version["d1"]

\* C23: if the document is opened and from some point on no open, change or
\* save event happens, then from some point on the document shows the
\* diagnostics set by a run that captured its final version (the executable
\* exists, input preparation succeeds and every process exits).
C23_FinalVersionShown ==
    (<>[][~EditorEvent]_vars /\ <>(status["d1"] = "open")) => <>[]ShowsCurrent

\* after an edit, nothing is pending and the document shows the diagnostics
\* of a run that captured its last version
C23_Witness ==
    /\ version["d1"] = MaxVersion /\ ShowsCurrent
    /\ runs = <<>> /\ timers = {}
    /\ last.op \in {"applied", "replaced"}

\* the runs whose process has been spawned and has not yet failed or closed
Running(rs) == {i \in 1..Len(rs) : rs[i].proc = "running"}

\* C24 as stated: while the analyzer is marked unavailable, no step spawns a
\* process (no step adds a running process).
C24_NoSpawnWhileUnavailable ==
    [][available = "false" => Cardinality(Running(runs')) <= Cardinality(Running(runs))]_vars

\* C25 as stated: the ENOENT failure of an invocation that was spawned
\* before the last change of the executable path leaves the availability
\* flag, the warned-once flag, the warnings shown and the collection as they
\* are, and its close event leaves the availability flag as it is.
C25_PreviousPathIgnored ==
    [][\A i \in 1..Len(runs) : runs[i].previousPath =>
          /\ ErrorStep(i, "ENOENT") =>
                UNCHANGED <<available, notifiedMissing, warnings, diagnostics>>
          /\ ExitStep(i) => available' = available]_vars

\* the path of the temp file `name` is a file directly inside the scratch
\* directory, and no document's own path
InScratch(name) ==
    /\ TempPath(name).abs
    /\ Len(TempPath(name).segs) = Len(ANALYZER_TEMP_DIR) + 1
    /\ SubSeq(TempPath(name).segs, 1, Len(ANALYZER_TEMP_DIR)) = ANALYZER_TEMP_DIR
    /\ \A d \in Docs : normalizeFsPath(TempPath(name)) /= normalizeFsPath(FsPath(d))

\* C26: a context on a document's own path has no cleanup, and a run awaits
\* a cleanup only for the file it was given by createTempFile; a file is
\* written only when a run's writeFile settles, at a path in the scratch
\* directory where no file was, and a file is deleted only by the cleanup of
\* the run that wrote it.
C26_OwnFileUntouched ==
    /\ [](/\ \A i \in 1..Len(runs) :
                /\ (\E d \in Docs : normalizeFsPath(runs[i].contextInfo.path)
                                        = normalizeFsPath(FsPath(d)))
                   => runs[i].contextInfo.cleanup = NoFile
                /\ runs[i].contextInfo.cleanup /= NoFile =>
                      /\ runs[i].contextInfo.cleanup = runs[i].temp
                      /\ runs[i].contextInfo.path = TempPath(runs[i].temp)
                /\ runs[i].pc = "cleanup" => runs[i].contextInfo.cleanup /= NoFile
          /\ \A f \in tempFiles : InScratch(f.name))
    /\ [][/\ \A f \in tempFiles' \ tempFiles :
               \E i \in 1..Len(runs) :
                   /\ WriteSettled(i, TRUE, "spawned")
                   /\ f = File(runs[i].temp, runs[i].content)
                   /\ f.name \notin FileNames(tempFiles)
                   /\ InScratch(f.name)
          /\ \A f \in tempFiles \ tempFiles' :
               \E i \in 1..Len(runs) :
                   /\ CleanupSettled(i)
                   /\ f.name = runs[i].contextInfo.cleanup
                   /\ f = File(runs[i].temp, runs[i].content)]_vars

\* the run of the untitled document has deleted its temp file and applied
\* its result, and no temp file is left
C26_Witness ==
    /\ last.op = "applied" /\ last.doc = "d2"
    /\ tempFiles = {} /\ runs = <<>>

\* C27 as stated: when parseDiagnostics has accepted an item that carries a
\* fix whose edit is on the item's own file, provideCodeActions returns an
\* action for the diagnostic made from it, in direct-from-disk mode and in
\* temp-snapshot mode.
C27_AcceptedFixYieldsAction ==
    call.fn = "provideCodeActions" /\ call.returned =>
        (call.value.diagnostics /= <<>> => call.value.actions /= <<>>)

TypeOK ==
    /\ status \in [Docs -> {"unopened", "open", "closed"}]
    /\ version \in [Docs -> 1..MaxVersion]
    /\ available \in AvailableValues
    /\ Len(runs) <= MaxRuns
    /\ warnings \in 0..1

====
